---------------------------- MODULE Spec2Model ----------------------------
(***************************************************************************)
(* Model of the excited-state post-processing of td (src/td.py,            *)
(* src/td/run.py, src/td/parser/turbomole.py, src/td/parser/ricc2.py).     *)
(*                                                                         *)
(* Numbers.  A CI coefficient is an integer number of tenths (7 is 0.7),   *)
(* a contribution an integer number of hundredths (49 is 0.49), so that    *)
(* ci_coeff**2 and thresh**2 * 2 are exact.  A parsed percentage p gives   *)
(* the contribution float(p)/100, i.e. p hundredths.                       *)
(*                                                                         *)
(* An energy is an integer number of 1e-7 eV, a wavelength the exact       *)
(* quotient [n, d] in 1e-4 nm, an oscillator strength an integer number of *)
(* hundredths.  An escf energy token k is k tenths of a Hartree, a ricc2   *)
(* energy token k is k eV.                                                 *)
(*                                                                         *)
(* SpecMain   __main__ of td.py and of run.py from the parser's return to  *)
(*            the printed table                                            *)
(* Spec       one ExcitedState as a parser returned it, and the methods    *)
(*            of the class applied to it.                                  *)
(* SpecParse  the TURBOMOLE parsers applied to the collections their       *)
(*            regular expressions extracted from a report.                 *)
(* SpecScan   get_excited_states of td.py, line by line, on a Gaussian     *)
(*            log.                                                         *)
(***************************************************************************)
EXTENDS Integers, Sequences, FiniteSets, TLC

VARIABLES
    source,          \* the parser that built the state
    spin,            \* ExcitedState.spin, the multiplicity token
    mo_transitions,  \* ExcitedState.mo_transitions
    stage,           \* position in the per-state loop of __main__
    args_ci_coeff,   \* the --ci-coeff threshold of the run
    last,            \* the method called last
    prev,            \* the method called before it
    ncalls,          \* number of method calls so far
    err,             \* the exception that ended the run, or "none"
    out,             \* the rows a transition listing emitted
    outBy,           \* the listing that emitted them
    text,            \* the collections the parser's regexes extracted
    excited_states,  \* the list the parser returned, and the variable of
                     \* that name in __main__
    parsed,          \* "no", "ok", or the exception the parser raised
    script,          \* "td.py" or "run.py"
    python,          \* major version of the interpreter running the script
    args,            \* the parsed command line
    pc,              \* the step of __main__ that runs next
    parsed_states,   \* what the parser returned to __main__
    outcome,         \* "running", or how the run ended
    display,         \* what the run has printed
    calls,           \* the method calls of the per-state loop so far
    handle,          \* the lines of the Gaussian log
    lineno,          \* how many of them get_excited_states has read
    matched_exc_state  \* the flag of that name in get_excited_states

vars == <<source, spin, mo_transitions, stage, args_ci_coeff, last, prev,
          ncalls, err, out, outBy, text, excited_states, parsed,
          script, python, args, pc, parsed_states, outcome, display,
          calls, handle, lineno, matched_exc_state>>

scanVars == <<handle, lineno, matched_exc_state>>

mainVars == <<script, python, args, pc, parsed_states, outcome, display,
              calls>>

stateVars == <<source, spin, mo_transitions, stage, args_ci_coeff, last, prev,
               ncalls, err, out, outBy>>

parseVars == <<text, excited_states, parsed>>

----------------------------------------------------------------------------
(* Bounds                                                                  *)

MaxTrans == 2

MaxCalls == 4

MaxStates == 2

(* contrib=None of add_mo_transition: no integer of the model's range *)
None == -100000

(* --ci-coeff default 0.2, in tenths *)
DefaultCiCoeff == 2

MOPairs == { <<"89", "90">>, <<"89", "91">> }

CiVals == { -5, 2, 7 }

PctVals == { 0, 4, 49 }

ThreshVals == { DefaultCiCoeff, 5 }

Arrows == { "->", "<-" }

(* multiplicity tokens each parser's pattern lets through *)
GaussianSpins == { "Singlet", "singlet", "Triplet" }

EscfSpins == { "singlet", "triplet", "" }

Ricc2Spins == { "1", "3" }

----------------------------------------------------------------------------
(* MOTransition and the parsers' ways of building one                      *)

MOTransition(start_mo, to_or_from, final_mo, ci_coeff, ci_type, contrib, start_spin, final_spin) ==
    [ start_mo |-> start_mo, to_or_from |-> to_or_from,
      final_mo |-> final_mo, ci_coeff |-> ci_coeff, ci_type |-> ci_type,
      contrib |-> contrib, start_spin |-> start_spin,
      final_spin |-> final_spin ]

(* td.py lines 69-80: an empty spin becomes "alpha" *)
add_mo_transition(start_mo, to_or_from, final_mo, ci_coeff, ci_type, start_spin, final_spin, contrib) ==
    MOTransition(start_mo, to_or_from, final_mo, ci_coeff, ci_type, contrib,
                 IF start_spin = "" THEN "alpha" ELSE start_spin,
                 IF final_spin = "" THEN "alpha" ELSE final_spin)

(* turbomole.py lines 31-33: a line of 8 fields, held as a line whose spin
   fields are "", gets "a" inserted at positions 3 and 7 *)
insert_spin(field) == IF field = "" THEN "a" ELSE field

(* get_excited_states: conv(groups, "sssf"), contrib left at None *)
GaussianTransitions ==
    { MOTransition(p[1], a, p[2], c, "float", None, "alpha", "alpha") :
        p \in MOPairs, a \in Arrows, c \in CiVals }

(* parse_escf: ci_coeff=-0, contrib=float(d[8])/100, always "->" *)
EscfTransitions ==
    { add_mo_transition(p[1], "->", p[2], 0, "int", "", "", pct) :
        p \in MOPairs, pct \in PctVals }

(* parse_ricc2: ci_coeff=coeff is the unconverted token of the line *)
Ricc2Transitions ==
    { add_mo_transition(p[1], "->", p[2], c, "str", insert_spin(""),
                        insert_spin(""), pct) :
        p \in MOPairs, c \in { 2, 7 }, pct \in PctVals }

SeqsUpTo(S, n) == UNION { [1..k -> S] : k \in 0..n }

----------------------------------------------------------------------------
(* ExcitedState methods, as functions of the state's fields                *)

is_singlet(sp) == sp = "singlet"

Result(trs, e) == [ trs |-> trs, err |-> e ]

(* lines 102-104: the contribution derived from the CI coefficient *)
derived_contrib(sp, t) ==
    LET sq == t.ci_coeff * t.ci_coeff
    IN  IF is_singlet(sp) THEN sq * 2 ELSE sq

(* calc_from with the test of line 100 as "if mo_trans.contrib:" *)
RECURSIVE calc_from_truthy(_, _, _)
calc_from_truthy(sp, trs, i) ==
    IF i > Len(trs) THEN [ trs |-> trs, err |-> "none" ]
    ELSE IF trs[i].contrib # None /\ trs[i].contrib # 0
         THEN calc_from_truthy(sp, trs, i + 1)
    ELSE IF trs[i].ci_type = "str" THEN [ trs |-> trs, err |-> "TypeError" ]
    ELSE calc_from_truthy(sp,
            [trs EXCEPT ![i].contrib = derived_contrib(sp, trs[i])], i + 1)

(* the loop of calculate_contributions from index i on; a transition whose
   contrib is not None is skipped, a str ci_coeff cannot be squared *)
RECURSIVE calc_from(_, _, _)
calc_from(sp, trs, i) ==
    IF i > Len(trs) THEN Result(trs, "none")
    ELSE IF trs[i].contrib # None THEN calc_from(sp, trs, i + 1)
    ELSE IF trs[i].ci_type = "str" THEN Result(trs, "TypeError")
    ELSE calc_from(sp, [trs EXCEPT ![i].contrib = derived_contrib(sp, trs[i])],
                   i + 1)

(* calculate_contributions without the test of line 100 *)
calculate_contributions_rederived(sp, trs) ==
    Result([ i \in DOMAIN trs |->
               [trs[i] EXCEPT !.contrib = derived_contrib(sp, trs[i])] ],
           "none")

(* lines 98-105 *)
calculate_contributions(sp, trs) == calc_from(sp, trs, 1)

(* lines 110-111: the back-excitations of the state, as indices in list
   order from index i on *)
RECURSIVE back_from(_, _)
back_from(trs, i) ==
    IF i > Len(trs) THEN << >>
    ELSE IF trs[i].to_or_from = "<-" THEN << i >> \o back_from(trs, i + 1)
    ELSE back_from(trs, i + 1)

back_transitions(trs) == back_from(trs, 1)

(* lines 116-118: the list comprehension, as indices in list order *)
RECURSIVE matching_from(_, _, _, _)
matching_from(trs, final_mo, start_mo, i) ==
    IF i > Len(trs) THEN << >>
    ELSE IF trs[i].start_mo = final_mo /\ trs[i].final_mo = start_mo
         THEN << i >> \o matching_from(trs, final_mo, start_mo, i + 1)
    ELSE matching_from(trs, final_mo, start_mo, i + 1)

(* lines 113-118: the transitions selected for the back-excitation at b *)
trans_to_correct(trs, b) ==
    LET final_mo == trs[b].start_mo
        start_mo == trs[b].final_mo
    IN  matching_from(trs, final_mo, start_mo, 1)

(* the loop over back_transitions; bts is what is left of it *)
RECURSIVE correct_from(_, _)
correct_from(trs, bts) ==
    IF bts = << >> THEN Result(trs, "none")
    ELSE LET b == Head(bts)
             found == trans_to_correct(trs, b)
         IN  IF found = << >> THEN Result(trs, "IndexError")
             ELSE LET k == found[1]
                  IN  IF trs[k].contrib = None \/ trs[b].contrib = None
                      THEN Result(trs, "TypeError")
                      ELSE correct_from(
                             [trs EXCEPT ![k].contrib =
                                 trs[k].contrib - trs[b].contrib],
                             Tail(bts))

correct_backexcitations(trs) == correct_from(trs, back_transitions(trs))

Abs(x) == IF x < 0 THEN -x ELSE x

(* line 138 *)
contrib_thresh(thresh) == thresh * thresh * 2

(* line 141: truth value of mo_trans.contrib *)
contrib_truthy(t) == t.contrib # None /\ t.contrib # 0

(* lines 140-146 for one transition: "del", "keep" or "TypeError" *)
low_ci_verdict(t, thresh) ==
    IF contrib_truthy(t)
    THEN IF t.contrib <= contrib_thresh(thresh) THEN "del" ELSE "keep"
    ELSE IF t.ci_type = "str" THEN "TypeError"
    ELSE IF Abs(t.ci_coeff) <= thresh THEN "del" ELSE "keep"

(* the first loop builds to_del; an exception in it leaves the list alone.
   The second loop removes the collected objects (remove is by identity). *)
RECURSIVE suppress_from(_, _, _, _)
suppress_from(trs, thresh, i, kept) ==
    IF i > Len(trs) THEN Result(kept, "none")
    ELSE LET v == low_ci_verdict(trs[i], thresh)
         IN  IF v = "TypeError" THEN Result(trs, "TypeError")
             ELSE suppress_from(trs, thresh, i + 1,
                     IF v = "del" THEN kept ELSE Append(kept, trs[i]))

suppress_low_ci_coeffs(trs, thresh) == suppress_from(trs, thresh, 1, << >>)

----------------------------------------------------------------------------
(* Transition listings                                                     *)

(* what a listing shows of a transition; to_or_from tells which transition
   the row came from *)
Row(t) == [ start_mo |-> t.start_mo, to_or_from |-> t.to_or_from,
            final_mo |-> t.final_mo, weight |-> t.contrib ]

(* MOTransition.outstr: {7: 5.3f} rejects a str, {8:3.1%} rejects None *)
outstr_error(t) ==
    IF t.ci_type = "str" THEN "ValueError"
    ELSE IF t.contrib = None THEN "TypeError"
    ELSE "none"

(* print_mo_transitions with the empty verbose_mos of a run without csv;
   the rows printed before an exception stay printed *)
RECURSIVE print_from(_, _, _)
print_from(trs, i, rows) ==
    IF i > Len(trs) THEN Result(rows, "none")
    ELSE IF trs[i].to_or_from = "<-" THEN print_from(trs, i + 1, rows)
    ELSE IF outstr_error(trs[i]) # "none"
         THEN Result(rows, outstr_error(trs[i]))
    ELSE print_from(trs, i + 1, Append(rows, Row(trs[i])))

print_mo_transitions(trs) == print_from(trs, 1, << >>)

(* as_table, the rows of one state: trans_str_list and weight_list take
   every element of mo_trans; "{:.0%}".format(None) raises and nothing is
   returned *)
as_table(trs) ==
    IF \E i \in DOMAIN trs : trs[i].contrib = None
    THEN Result(<< >>, "TypeError")
    ELSE Result([i \in DOMAIN trs |-> Row(trs[i])], "none")

----------------------------------------------------------------------------
(* TURBOMOLE parsers, on the collections re.findall extracted              *)

ExcitedState(id, sp, spat, dE, l, f, trs) ==
    [ id |-> id, spin |-> sp, spat |-> spat, dE |-> dE, l |-> l, f |-> f,
      mo_transitions |-> trs ]

(* td.py line 288: dE = ee * 27.211386, as an integer of 1e-6 *)
HARTREE2EV == 27211386

(* td.py line 289: l = 45.56335 / ee, as an integer of 1e-5 *)
HARTREE2NM == 4556335

(* the nm*eV constant 1239.84193 of the data model, as an integer of 1e-5;
   td.constants, which sets EV2NM, is not among the sources *)
EV2NM == 123984193

Quotient(n, d) == [ n |-> n, d |-> d ]

(* parse_escf: dE = ee * HARTREE2EV and l = HARTREE2NM / ee for the token
   of k tenths of a Hartree *)
escf_dE(k) == k * HARTREE2EV

escf_l(k) == Quotient(HARTREE2NM, k)

(* parse_ricc2: the energy is ee itself and l = EV2NM / ee for the token of
   k eV *)
ricc2_dE(k) == k * 10000000

ricc2_l(k) == Quotient(EV2NM, 10 * k)

Min(S) == CHOOSE x \in S : \A y \in S : x <= y

(* zip stops at the shortest of its arguments *)
ZipLen(lens) == Min(lens)

(* the slice taken from the end, i.e. the second listing *)
Prefix_second(seq, n) == SubSeq(seq, Len(seq) - n + 1, Len(seq))

(* seq[:n] *)
Prefix(seq, n) == SubSeq(seq, 1, n)

(* turbomole.parse_escf lines 102-126 (td.py parse_escf lines 284-306 is the
   same loop): the four lists are zipped as they are *)
parse_escf(t) ==
    LET n == ZipLen({ Len(t.syms), Len(t.ees), Len(t.oscs), Len(t.blocks) })
    IN  [ status |-> "ok",
          states |-> [ i \in 1..n |->
              ExcitedState(t.syms[i].id, t.syms[i].spin, t.syms[i].spat,
                           escf_dE(t.ees[i]), escf_l(t.ees[i]), t.oscs[i],
                           [ j \in DOMAIN t.blocks[i] |->
                               add_mo_transition(
                                   t.blocks[i][j].start_mo, "->",
                                   t.blocks[i][j].final_mo, 0, "int",
                                   t.blocks[i][j].start_spin,
                                   t.blocks[i][j].final_spin,
                                   t.blocks[i][j].percent) ]) ] ]

(* turbomole.parse_ricc2: ids, syms, spins come from one findall (t.syms),
   so the first assert can only fail on ees *)
parse_ricc2(t) ==
    IF t.syms = << >> THEN [ status |-> "ValueError", states |-> << >> ]
    ELSE IF Len(t.syms) # Len(t.ees)
    THEN [ status |-> "AssertionError", states |-> << >> ]
    ELSE LET doubled == Len(t.syms) = 2 * Len(t.oscs)
             syms == IF doubled THEN Prefix(t.syms, Len(t.oscs)) ELSE t.syms
             ees  == IF doubled THEN Prefix(t.ees, Len(t.oscs)) ELSE t.ees
         IN  IF ~ ( Len(syms) = Len(ees) /\ Len(ees) = Len(t.oscs)
                    /\ Len(t.oscs) = Len(t.blocks) )
             THEN [ status |-> "AssertionError", states |-> << >> ]
             ELSE LET n == ZipLen({ Len(t.syms), Len(syms), Len(ees),
                                    Len(t.oscs), Len(t.blocks) })
                  IN  [ status |-> "ok",
                        states |-> [ i \in 1..n |->
                          ExcitedState(t.syms[i].id, syms[i].spin,
                             syms[i].spat, ricc2_dE(ees[i]), ricc2_l(ees[i]),
                             t.oscs[i],
                             [ j \in DOMAIN t.blocks[i] |->
                                 add_mo_transition(
                                    t.blocks[i][j].start_mo, "->",
                                    t.blocks[i][j].final_mo,
                                    t.blocks[i][j].coeff, "str",
                                    insert_spin(t.blocks[i][j].start_spin),
                                    insert_spin(t.blocks[i][j].final_spin),
                                    t.blocks[i][j].percent) ]) ] ]

----------------------------------------------------------------------------
(* The command line of __main__                                            *)

(* argparse's defaults (td.py lines 423-483, run.py lines 231-300): None   *)
(* for an absent number, the empty list for an absent nargs="+" list, ""   *)
(* for an absent string; --ci-coeff 0.2 and --fthresh 0.0                  *)
DefaultArgs ==
    [ only_first |-> None, spectrum |-> FALSE, by_id |-> None, irrep |-> "",
      start_mos |-> << >>, final_mos |-> << >>, start_final_mos |-> << >>,
      sf |-> FALSE, se |-> FALSE, range |-> << >>, fthresh |-> 0,
      show |-> None, booktabs |-> FALSE, ci_coeff |-> DefaultCiCoeff,
      start_l |-> None, end_l |-> None, normalized |-> TRUE, e2f |-> FALSE ]

(* the options a run is given, numbered; --range in nm, --fthresh in
   hundredths, --ci-coeff in tenths; spectrum is the truth value of
   args.spectrum and start_l, end_l the two values td.py line 523 unpacks
   from it, in nm *)
WithOption(a, o) ==
    CASE o = 1  -> [a EXCEPT !.only_first = 1]
      [] o = 2  -> [a EXCEPT !.spectrum = TRUE, !.start_l = 303,
                             !.end_l = 305]
      [] o = 3  -> [a EXCEPT !.by_id = -1]
      [] o = 4  -> [a EXCEPT !.by_id = 0]
      [] o = 5  -> [a EXCEPT !.by_id = 1]
      [] o = 6  -> [a EXCEPT !.by_id = MaxStates + 1]
      [] o = 7  -> [a EXCEPT !.irrep = "b"]
      [] o = 8  -> [a EXCEPT !.start_mos = << "12", "13" >>]
      [] o = 9  -> [a EXCEPT !.final_mos = << "13" >>]
      [] o = 10 -> [a EXCEPT !.start_final_mos = << "12" >>]
      [] o = 11 -> [a EXCEPT !.start_final_mos = << "12", "13" >>]
      [] o = 12 -> [a EXCEPT !.start_final_mos = << "12", "13", "14", "15" >>]
      [] o = 13 -> [a EXCEPT !.sf = TRUE]
      [] o = 14 -> [a EXCEPT !.range = << 300 >>]
      [] o = 15 -> [a EXCEPT !.range = << 200, 300 >>]
      [] o = 16 -> [a EXCEPT !.range = << 200, 300, 400 >>]
      [] o = 17 -> [a EXCEPT !.fthresh = 5]
      [] o = 18 -> [a EXCEPT !.fthresh = 10]
      [] o = 19 -> [a EXCEPT !.fthresh = 20]
      [] o = 20 -> [a EXCEPT !.show = 1]
      [] o = 21 -> [a EXCEPT !.show = 0]
      [] o = 22 -> [a EXCEPT !.booktabs = TRUE]
      [] o = 23 -> [a EXCEPT !.ci_coeff = 5]
      [] o = 24 -> [a EXCEPT !.se = TRUE]
      [] o = 25 -> [a EXCEPT !.spectrum = TRUE, !.start_l = 304,
                             !.end_l = 305]
      [] o = 26 -> [a EXCEPT !.e2f = TRUE]
      [] o = 27 -> [a EXCEPT !.normalized = FALSE]

(* --se exists in run.py only (run.py line 247) *)
OptionsOf(scr) == IF scr = "td.py" THEN (1..27) \ { 24 } ELSE 1..27

(* the option sets of at most n options *)
RECURSIVE OptionSets(_, _)
OptionSets(scr, n) ==
    IF n = 0 THEN { {} }
    ELSE LET fewer == OptionSets(scr, n - 1)
         IN  fewer \cup { S \cup { o } : S \in fewer, o \in OptionsOf(scr) }

(* parse_args: later options override earlier ones of the same name *)
RECURSIVE ParseArgs(_)
ParseArgs(S) ==
    IF S = {} THEN DefaultArgs
    ELSE LET o == CHOOSE x \in S : \A y \in S : y <= x
         IN  WithOption(ParseArgs(S \ { o }), o)

(* truth value of an optional number: None and 0 are false *)
Truthy(x) == x # None /\ x # 0

NoDisplay == [ kind |-> "none", states |-> << >>, spectrum |-> FALSE,
               curve |-> << >> ]

ScanIdle == handle = << >> /\ lineno = 0 /\ matched_exc_state = FALSE

MainIdle ==
    /\ ScanIdle
    /\ script = "none" /\ python = 0 /\ args = DefaultArgs /\ pc = "none"
    /\ parsed_states = << >> /\ outcome = "none" /\ display = NoDisplay
    /\ calls = << >>

----------------------------------------------------------------------------
(* The steps of __main__ on the list of states                             *)

(* td.py lines 514-516, run.py lines 339-341, for one state: an exception
   leaves the state as the failing method left it *)
per_state(s, thresh) ==
    LET c == calculate_contributions(s.spin, s.mo_transitions)
        b == correct_backexcitations(c.trs)
        u == suppress_low_ci_coeffs(b.trs, thresh)
        r == IF c.err # "none" THEN c ELSE IF b.err # "none" THEN b ELSE u
    IN  [ state |-> [s EXCEPT !.mo_transitions = r.trs], err |-> r.err ]

(* td.py lines 513-516: the loop stops at the first exception *)
RECURSIVE per_state_from(_, _, _)
per_state_from(states, thresh, i) ==
    IF i > Len(states) THEN [ states |-> states, err |-> "none" ]
    ELSE LET r == per_state(states[i], thresh)
             upd == [states EXCEPT ![i] = r.state]
         IN  IF r.err # "none" THEN [ states |-> upd, err |-> r.err ]
             ELSE per_state_from(upd, thresh, i + 1)

(* one call of the loop body: the method, the index of the state in the
   list and the transitions the method found in it *)
Call(i, method, trs) == [ state |-> i, method |-> method, trs |-> trs ]

(* td.py lines 514-516 for the state at index i: the calls made, up to and
   including the one that raised *)
per_state_calls(s, i, thresh) ==
    LET c == calculate_contributions(s.spin, s.mo_transitions)
        b == correct_backexcitations(c.trs)
    IN  << Call(i, "calculate_contributions", s.mo_transitions) >>
        \o ( IF c.err # "none" THEN << >>
             ELSE << Call(i, "correct_backexcitations", c.trs) >>
                  \o ( IF b.err # "none" THEN << >>
                       ELSE << Call(i, "suppress_low_ci_coeffs", b.trs) >> ) )

(* td.py lines 513-516: the calls of the whole loop *)
RECURSIVE loop_calls(_, _, _)
loop_calls(states, thresh, i) ==
    IF i > Len(states) THEN << >>
    ELSE per_state_calls(states[i], i, thresh)
         \o ( IF per_state(states[i], thresh).err # "none" THEN << >>
              ELSE loop_calls(states, thresh, i + 1) )

(* seq[:n] for an integer n or None *)
slice_to(seq, n) ==
    IF n = None THEN seq
    ELSE IF n >= 0 THEN SubSeq(seq, 1, IF n < Len(seq) THEN n ELSE Len(seq))
    ELSE SubSeq(seq, 1, IF Len(seq) + n > 0 THEN Len(seq) + n ELSE 0)

(* seq[i] for a list of n elements: the 1-based position read, 0 for an
   IndexError; a negative i counts from the end *)
getitem(n, i) ==
    IF 0 <= i /\ i < n THEN i + 1
    ELSE IF i < 0 /\ -n <= i THEN n + i + 1
    ELSE 0

get_start_mos(s) ==
    { s.mo_transitions[j].start_mo : j \in DOMAIN s.mo_transitions }

get_final_mos(s) ==
    { s.mo_transitions[j].final_mo : j \in DOMAIN s.mo_transitions }

has_mo_transition(s, start_mo, final_mo) ==
    \E j \in DOMAIN s.mo_transitions :
        /\ start_mo = s.mo_transitions[j].start_mo
        /\ final_mo = s.mo_transitions[j].final_mo

(* the orders in which a set of the objects of seq can be iterated: the
   states hash by address *)
set_orders(seq) ==
    { [ i \in DOMAIN seq |-> seq[p[i]] ] : p \in Permutations(DOMAIN seq) }

(* td.py lines 547-551 *)
with_start_mos(states, mos) ==
    SelectSeq(states,
              LAMBDA s : \E i \in DOMAIN mos : mos[i] \in get_start_mos(s))

(* td.py lines 553-557 *)
with_final_mos(states, mos) ==
    SelectSeq(states,
              LAMBDA s : \E i \in DOMAIN mos : mos[i] \in get_final_mos(s))

(* td.py line 564 under Python 2, where len(sf_mos) / 2 is an integer *)
sf_pairs(sf_mos) ==
    [ i \in 1..(Len(sf_mos) \div 2) |-> << sf_mos[i], sf_mos[i + 1] >> ]

(* td.py lines 565-569 *)
with_pairs(states, pairs) ==
    SelectSeq(states,
              LAMBDA s : \E i \in DOMAIN pairs :
                  has_mo_transition(s, pairs[i][1], pairs[i][2]))

(* a < b for two quotients with positive denominators *)
LessQ(a, b) == a.n * b.d < b.n * a.d

(* a nm value of the command line as a quotient in 1e-4 nm *)
Nm(x) == Quotient(10000 * x, 1)

(* key(a) < key(b) for the sort keys of td.py lines 576, 579 and run.py
   line 417 *)
KeyLess(key, a, b) ==
    CASE key = "-f" -> b.f < a.f
      [] key = "dE" -> a.dE < b.dE
      [] key = "-l" -> LessQ(b.l, a.l)

(* sorted() is stable: x goes behind the elements that do not sort after it *)
RECURSIVE insort(_, _, _)
insort(seq, x, key) ==
    IF seq = << >> THEN << x >>
    ELSE IF KeyLess(key, x, Head(seq)) THEN << x >> \o seq
    ELSE << Head(seq) >> \o insort(Tail(seq), x, key)

RECURSIVE sorted_from(_, _, _, _)
sorted_from(seq, key, i, acc) ==
    IF i > Len(seq) THEN acc
    ELSE sorted_from(seq, key, i + 1, insort(acc, seq[i], key))

sorted(seq, key) == sorted_from(seq, key, 1, << >>)

(* td.py lines 581-582 *)
relabel(states) == [ i \in DOMAIN states |-> [states[i] EXCEPT !.id = i] ]

(* td.py lines 574-582 *)
sort_td(states, sf) ==
    IF sf THEN sorted(states, "-f") ELSE relabel(sorted(states, "dE"))

(* run.py lines 412-417; the energy sort of lines 418-426 is inside a
   string literal *)
sort_run(states, sf, se) ==
    LET by_f == IF sf THEN sorted(states, "-f") ELSE states
    IN  IF se THEN sorted(by_f, "-l") ELSE by_f

(* td.py lines 587-594 *)
in_range(states, range) ==
    IF Len(range) = 1
    THEN SelectSeq(states, LAMBDA s : ~ LessQ(s.l, Nm(range[1])))
    ELSE SelectSeq(states, LAMBDA s : /\ ~ LessQ(s.l, Nm(range[1]))
                                      /\ ~ LessQ(Nm(range[2]), s.l))

(* td.py lines 598-599 with > for >= *)
above_fthresh_strictly(states, fthresh) ==
    SelectSeq(states, LAMBDA s : s.f > fthresh)

(* td.py lines 598-599 *)
above_fthresh(states, fthresh) ==
    SelectSeq(states, LAMBDA s : s.f >= fthresh)

(* td.py lines 322-324 for f = 1, in thousandths: the bands of the states
   at 455.6335 nm (l_i.d = 1) and at 227.81675 nm (l_i.d = 2) at the samples
   303.0, 303.5, 304.0 and 304.5 nm, which are x = 606 .. 609 half nm *)
unit_band(x, l_i) ==
    IF l_i.d = 1
    THEN CASE x = 606 -> 322
           [] x = 607 -> 361
           [] x = 608 -> 404
           [] x = 609 -> 453
    ELSE CASE x = 606 -> 455
           [] x = 607 -> 406
           [] x = 608 -> 362
           [] x = 609 -> 323

(* td.py line 322: the band of a state of oscillator strength f (in
   hundredths), in units of 1e-5 *)
gauss_uv_band(x, f, l_i) == f * unit_band(x, l_i)

(* td.py line 336: np.sum of the bands of all states at one sample *)
RECURSIVE band_sum(_, _, _)
band_sum(states, x, i) ==
    IF i > Len(states) THEN 0
    ELSE gauss_uv_band(x, states[i].f, states[i].l)
           + band_sum(states, x, i + 1)

(* td.py line 339: 40490.05867167 to the unit *)
E2F == 40490

(* a / b for two floats held as quotients; 0 / 0 is nan, held as 0 over 0 *)
Div(a, b) ==
    IF b.n = 0 THEN Quotient(0, 0)
    ELSE IF a.d = b.d THEN Quotient(a.n, b.n)
    ELSE Quotient(a.n * b.d, a.d * b.n)

(* spectrum.max() of samples of one denominator *)
curve_max(curve) ==
    CHOOSE m \in { curve[i] : i \in DOMAIN curve } :
        \A i \in DOMAIN curve : curve[i].n <= m.n

(* td.py lines 327-344: x = np.arange(start_l, end_l, 0.5); the max() of
   an empty array raises *)
make_spectrum(states, start_l, end_l, normalized, e2f) ==
    LET n == IF end_l > start_l THEN 2 * (end_l - start_l) ELSE 0
        raw == [ i \in 1..n |->
                   Quotient(band_sum(states, 2 * start_l + i - 1, 1),
                            IF e2f THEN E2F ELSE 1) ]
    IN  IF ~ normalized THEN [ curve |-> raw, err |-> "none" ]
        ELSE IF n = 0 THEN [ curve |-> << >>, err |-> "ValueError" ]
        ELSE [ curve |-> [ i \in 1..n |-> Div(raw[i], curve_max(raw)) ],
               err |-> "none" ]

(* td.py lines 610-614: min() and max() of no MO at all raise *)
min_max_mo(states) ==
    IF UNION { get_start_mos(states[i]) : i \in DOMAIN states } = {}
    THEN "ValueError" ELSE "none"

(* td.py line 630: the zip of no row yields nothing to unpack *)
booktabs(states) == IF states = << >> THEN "ValueError" ELSE "none"

----------------------------------------------------------------------------
(* Spec: one ExcitedState and the calls of its methods                     *)

NoText == [ fmt |-> "none", syms |-> << >>, ees |-> << >>, oscs |-> << >>,
            blocks |-> << >> ]

ParseIdle == text = NoText /\ excited_states = << >> /\ parsed = "no"

Init ==
    /\ \/ /\ source = "gaussian"
          /\ spin \in GaussianSpins
          /\ mo_transitions \in SeqsUpTo(GaussianTransitions, MaxTrans)
       \/ /\ source = "escf"
          /\ spin \in EscfSpins
          /\ mo_transitions \in SeqsUpTo(EscfTransitions, MaxTrans)
       \/ /\ source = "ricc2"
          /\ spin \in Ricc2Spins
          /\ mo_transitions \in SeqsUpTo(Ricc2Transitions, MaxTrans)
    /\ args_ci_coeff \in ThreshVals
    /\ stage = "parsed"
    /\ last = "none"
    /\ prev = "none"
    /\ ncalls = 0
    /\ err = "none"
    /\ out = << >>
    /\ outBy = "none"
    /\ ParseIdle
    /\ MainIdle

Running == err = "none" /\ outBy = "none"

(* __main__ calls the three methods in this order, once each (td.py lines
   513-516, run.py lines 338-341); any other order leaves the pipeline *)
NextStage(method) ==
    IF stage = "parsed" /\ method = "calculate_contributions"
    THEN "calculated"
    ELSE IF stage = "calculated" /\ method = "correct_backexcitations"
    THEN "corrected"
    ELSE IF stage = "corrected" /\ method = "suppress_low_ci_coeffs"
    THEN "suppressed"
    ELSE "off"

Called(method, r) ==
    /\ mo_transitions' = r.trs
    /\ err' = r.err
    /\ stage' = NextStage(method)
    /\ last' = method
    /\ prev' = last
    /\ ncalls' = ncalls + 1
    /\ UNCHANGED << source, spin, args_ci_coeff, out, outBy, parseVars,
                    mainVars, scanVars >>

CalculateContributions ==
    /\ Running /\ ncalls < MaxCalls
    /\ Called("calculate_contributions",
              calculate_contributions(spin, mo_transitions))

CorrectBackexcitations ==
    /\ Running /\ ncalls < MaxCalls
    /\ Called("correct_backexcitations",
              correct_backexcitations(mo_transitions))

SuppressLowCiCoeffs ==
    /\ Running /\ ncalls < MaxCalls
    /\ Called("suppress_low_ci_coeffs",
              suppress_low_ci_coeffs(mo_transitions, args_ci_coeff))

Listed(by, r) ==
    /\ out' = r.trs
    /\ err' = r.err
    /\ outBy' = by
    /\ UNCHANGED << source, spin, mo_transitions, stage, args_ci_coeff, last,
                    prev, ncalls, parseVars, mainVars, scanVars >>

(* the listings come after the per-state loop of __main__ *)
PrintMoTransitions ==
    /\ Running /\ stage = "suppressed"
    /\ Listed("print_mo_transitions", print_mo_transitions(mo_transitions))

AsTable ==
    /\ Running /\ stage = "suppressed"
    /\ Listed("as_table", as_table(mo_transitions))

Next ==
    \/ CalculateContributions
    \/ CorrectBackexcitations
    \/ SuppressLowCiCoeffs
    \/ PrintMoTransitions
    \/ AsTable

Spec == Init /\ [][Next]_vars

----------------------------------------------------------------------------
(* SpecParse: a report's extracted collections and the parser run on them  *)

StateIdle ==
    /\ source = "none" /\ spin = "" /\ mo_transitions = << >>
    /\ stage = "parsed" /\ args_ci_coeff = DefaultCiCoeff
    /\ last = "none" /\ prev = "none" /\ ncalls = 0 /\ err = "none"
    /\ out = << >> /\ outBy = "none"

(* TURBOMOLE numbers the states of each irrep from 1 *)
SymEntries == { [ id |-> 1, spin |-> "singlet", spat |-> "a" ],
                [ id |-> 2, spin |-> "singlet", spat |-> "a" ],
                [ id |-> 1, spin |-> "triplet", spat |-> "b" ] }

BlockLine == [ start_mo |-> "89", final_mo |-> "90", coeff |-> 7,
               percent |-> 49, start_spin |-> "", final_spin |-> "" ]

(* the spin fields of a contribution line: "" for the empty optional group
   of an escf line and for a ricc2 line of 8 fields *)
SpinFields == { "", "alpha", "beta" }

WithSpins(block, start_spin, final_spin) ==
    [ j \in DOMAIN block |-> [block[j] EXCEPT !.start_spin = start_spin,
                                              !.final_spin = final_spin] ]

(* the i-th energy, oscillator strength and transition block of a report *)
EeAt(i) == i

OscAt(i) == 10 * i

BlockAt(i) == << [ BlockLine EXCEPT !.percent = 40 + i ] >>

InitParse ==
    /\ StateIdle
    /\ MainIdle
    /\ excited_states = << >>
    /\ parsed = "no"
    /\ \E fmt \in { "escf", "ricc2" } :
       \E ns \in 0..(2 * MaxStates), ne \in 0..(2 * MaxStates),
          no \in 0..MaxStates, nb \in 0..MaxStates :
       \E syms \in [1..ns -> SymEntries], sp \in SpinFields :
          text = [ fmt |-> fmt, syms |-> syms,
                   ees |-> [ i \in 1..ne |-> EeAt(i) ],
                   oscs |-> [ i \in 1..no |-> OscAt(i) ],
                   blocks |-> [ i \in 1..nb |->
                                  WithSpins(BlockAt(i), sp, sp) ] ]

Parsed(r) ==
    /\ excited_states' = r.states
    /\ parsed' = r.status
    /\ UNCHANGED << text, stateVars, mainVars, scanVars >>

ParseEscf ==
    /\ parsed = "no" /\ text.fmt = "escf"
    /\ Parsed(parse_escf(text))

ParseRicc2 ==
    /\ parsed = "no" /\ text.fmt = "ricc2"
    /\ Parsed(parse_ricc2(text))

NextParse == ParseEscf \/ ParseRicc2

SpecParse == InitParse /\ [][NextParse]_vars

----------------------------------------------------------------------------
(* SpecMain: __main__ from the parser's return to the printed table        *)

MaxOpts == 2

(* the states of a report: header, excitation energy in tenths of a
   Hartree, oscillator strength in hundredths, contribution block *)
MainSyms == << [ id |-> 1, spin |-> "singlet", spat |-> "a" ],
               [ id |-> 2, spin |-> "singlet", spat |-> "a" ],
               [ id |-> 1, spin |-> "singlet", spat |-> "b" ] >>

MainEes == << 1, 2, 1 >>

MainOscs == << 10, 20, 0 >>

MainBlocks ==
    << << [ start_mo |-> "12", final_mo |-> "13", coeff |-> 0,
            percent |-> 49, start_spin |-> "", final_spin |-> "" ] >>,
       << [ start_mo |-> "14", final_mo |-> "15", coeff |-> 0,
            percent |-> 49, start_spin |-> "", final_spin |-> "" ],
          [ start_mo |-> "14", final_mo |-> "16", coeff |-> 0,
            percent |-> 0, start_spin |-> "", final_spin |-> "" ] >>,
       << [ start_mo |-> "13", final_mo |-> "14", coeff |-> 0,
            percent |-> 49, start_spin |-> "", final_spin |-> "" ],
          [ start_mo |-> "12", final_mo |-> "15", coeff |-> 0,
            percent |-> 4, start_spin |-> "", final_spin |-> "" ] >> >>

(* the reports of at most MaxStates of these states, in any order *)
Orders ==
    { o \in SeqsUpTo(DOMAIN MainSyms, MaxStates) :
        \A i, j \in DOMAIN o : i # j => o[i] # o[j] }

Report(o) ==
    [ fmt |-> "escf",
      syms |-> [ i \in DOMAIN o |-> MainSyms[o[i]] ],
      ees |-> [ i \in DOMAIN o |-> MainEes[o[i]] ],
      oscs |-> [ i \in DOMAIN o |-> MainOscs[o[i]] ],
      blocks |-> [ i \in DOMAIN o |-> MainBlocks[o[i]] ] ]

(* td.py line 379 is a Python 2 print statement; run.py line 1 asks for
   python3 *)
python_of(scr) == IF scr = "td.py" THEN 2 ELSE 3

Raised(e) == IF e = "none" THEN "running" ELSE e

(* td.py lines 508-511 read escf.out with parse_escf; run.py lines 210-225
   choose the parser by the file name *)
FormatsOf(scr) == IF scr = "td.py" THEN { "escf" } ELSE { "escf", "ricc2" }

parse(t) == IF t.fmt = "ricc2" THEN parse_ricc2(t) ELSE parse_escf(t)

InitMain ==
    /\ StateIdle
    /\ script \in { "td.py", "run.py" }
    /\ \E o \in Orders, fmt \in FormatsOf(script) :
          /\ text = [Report(o) EXCEPT !.fmt = fmt]
          /\ excited_states = parse(text).states
          /\ parsed_states = parse(text).states
    /\ parsed = parse(text).status
    /\ calls = << >>
    /\ ScanIdle
    /\ python = python_of(script)
    /\ args \in { ParseArgs(S) : S \in OptionSets(script, MaxOpts) }
    /\ pc = "per_state"
    /\ outcome = Raised(IF parsed = "ok" THEN "none" ELSE parsed)
    /\ display = NoDisplay

At(step) == pc = step /\ outcome = "running"

Goes(next, states, oc, shown) ==
    /\ pc' = next
    /\ excited_states' = states
    /\ outcome' = oc
    /\ display' = shown
    /\ calls' = IF pc = "per_state"
                THEN loop_calls(excited_states, args.ci_coeff, 1)
                ELSE calls
    /\ UNCHANGED << stateVars, text, parsed, script, python, args,
                    parsed_states, scanVars >>

(* td.py lines 513-516, run.py lines 338-342 *)
PerStateLoop ==
    /\ At("per_state")
    /\ LET r == per_state_from(excited_states, args.ci_coeff, 1)
       IN  Goes("only_first", r.states, Raised(r.err), display)

(* td.py lines 518-519 *)
OnlyFirst ==
    /\ At("only_first")
    /\ Goes("spectrum",
            IF Truthy(args.only_first)
            THEN slice_to(excited_states, args.only_first)
            ELSE excited_states,
            "running", display)

(* td.py lines 521-526 print the spectrum and exit; run.py lines 354-362
   write it to files and go on *)
WriteSpectrum ==
    /\ At("spectrum")
    /\ IF args.spectrum
       THEN IF script = "td.py"
            THEN LET r == make_spectrum(excited_states, args.start_l,
                                        args.end_l, args.normalized,
                                        args.e2f)
                 IN  Goes("by_id", excited_states,
                          IF r.err = "none" THEN "exit" ELSE r.err,
                          [display EXCEPT !.spectrum = TRUE,
                                          !.curve = r.curve])
            ELSE Goes("by_id", excited_states, "running",
                      [display EXCEPT !.spectrum = TRUE])
       ELSE Goes("by_id", excited_states, "running", display)

(* td.py lines 528-535, run.py lines 367-374 *)
ById ==
    /\ At("by_id")
    /\ IF Truthy(args.by_id)
       THEN LET p == getitem(Len(excited_states), args.by_id - 1)
            IN  IF p = 0
                THEN Goes("irrep", excited_states, "exit",
                          [display EXCEPT !.kind = "not_found"])
                ELSE Goes("irrep", excited_states,
                          LET r == print_mo_transitions(
                                       excited_states[p].mo_transitions)
                          IN  IF r.err = "none" THEN "exit" ELSE r.err,
                          [display EXCEPT !.kind = "state",
                                          !.states = << excited_states[p] >>])
       ELSE Goes("irrep", excited_states, "running", display)

(* td.py lines 543-544 *)
IrrepFilter ==
    /\ At("irrep")
    /\ Goes("start_mos",
            IF args.irrep # ""
            THEN SelectSeq(excited_states, LAMBDA s : s.spat = args.irrep)
            ELSE excited_states,
            "running", display)

(* td.py lines 546-551 *)
StartMos ==
    /\ At("start_mos")
    /\ IF args.start_mos # << >>
       THEN \E o \in set_orders(with_start_mos(excited_states,
                                               args.start_mos)) :
                Goes("final_mos", o, "running", display)
       ELSE Goes("final_mos", excited_states, "running", display)

(* td.py lines 552-557 *)
FinalMos ==
    /\ At("final_mos")
    /\ IF args.final_mos # << >>
       THEN \E o \in set_orders(with_final_mos(excited_states,
                                               args.final_mos)) :
                Goes("start_final_mos", o, "running", display)
       ELSE Goes("start_final_mos", excited_states, "running", display)

(* td.py lines 558-570, run.py lines 397-409: under Python 3
   range(len(sf_mos) / 2) is range() of a float *)
StartFinalMos ==
    /\ At("start_final_mos")
    /\ IF args.start_final_mos = << >>
       THEN Goes("sort", excited_states, "running", display)
       ELSE IF Len(args.start_final_mos) % 2 # 0
       THEN Goes("sort", excited_states, "usage", display)
       ELSE IF python = 3
       THEN Goes("sort", excited_states, "TypeError", display)
       ELSE \E o \in set_orders(with_pairs(excited_states,
                                    sf_pairs(args.start_final_mos))) :
                Goes("sort", o, "running", display)

(* td.py lines 572-582, run.py lines 411-426 *)
Sort ==
    /\ At("sort")
    /\ Goes("range",
            IF script = "td.py" THEN sort_td(excited_states, args.sf)
            ELSE sort_run(excited_states, args.sf, args.se),
            "running", display)

(* td.py lines 584-595 *)
Range ==
    /\ At("range")
    /\ IF args.range = << >>
       THEN Goes("fthresh", excited_states, "running", display)
       ELSE IF Len(args.range) \in { 1, 2 }
       THEN Goes("fthresh", in_range(excited_states, args.range),
                 "running", display)
       ELSE Goes("fthresh", excited_states, "Exception", display)

(* td.py lines 597-599: a threshold of 0 is false *)
FThresh ==
    /\ At("fthresh")
    /\ Goes("show",
            IF args.fthresh # 0
            THEN above_fthresh(excited_states, args.fthresh)
            ELSE excited_states,
            "running", display)

(* td.py line 601 *)
Show ==
    /\ At("show")
    /\ Goes("min_max", slice_to(excited_states, args.show), "running",
            display)

(* td.py lines 609-614; run.py lines 453-462 go through the irreps of the
   states that are left *)
MinMaxMos ==
    /\ At("min_max")
    /\ Goes("output", excited_states,
            IF script = "td.py" THEN Raised(min_max_mo(excited_states))
            ELSE "running",
            display)

(* td.py lines 629-659: the booktabs table, or the plain one *)
Output ==
    /\ At("output")
    /\ IF args.booktabs
       THEN IF booktabs(excited_states) = "none"
            THEN Goes("end", excited_states, "exit",
                      [display EXCEPT !.kind = "booktabs",
                                      !.states = excited_states])
            ELSE Goes("end", excited_states, booktabs(excited_states),
                      display)
       ELSE Goes("end", excited_states, "done",
                 [display EXCEPT !.kind = "table",
                                 !.states = excited_states])

NextMain ==
    \/ PerStateLoop
    \/ OnlyFirst
    \/ WriteSpectrum
    \/ ById
    \/ IrrepFilter
    \/ StartMos
    \/ FinalMos
    \/ StartFinalMos
    \/ Sort
    \/ Range
    \/ FThresh
    \/ Show
    \/ MinMaxMos
    \/ Output

SpecMain == InitMain /\ [][NextMain]_vars

----------------------------------------------------------------------------
(* SpecScan: get_excited_states of td.py on the lines of a Gaussian log    *)

MaxLines == 4

(* a line after strip(): one that EXC_LINE matches, with the id it carries,
   one that TRS_LINE matches, the empty line, and any other line *)
HeaderLine(id) == [ kind |-> "header", id |-> id ]

TransitionLine == [ kind |-> "transition", id |-> 0 ]

BlankLine == [ kind |-> "blank", id |-> 0 ]

OtherLine == [ kind |-> "other", id |-> 0 ]

Lines == { HeaderLine(1), HeaderLine(2), TransitionLine, BlankLine,
           OtherLine }

(* td.py line 244: the state of a header, here a singlet of symmetry A at
   3.1 eV, 400 nm, f = 0.10 *)
header_state(line) ==
    ExcitedState(line.id, "Singlet", "A", 31000000, Quotient(4000000, 1),
                 10, << >>)

(* td.py line 230: conv yields one value per character of the format *)
TrsFormat == << "s", "s", "s", "f" >>

(* td.py lines 69-70: the parameters of add_mo_transition after self that
   have no default *)
RequiredOfAdd == << "start_mo", "to_or_from", "final_mo", "ci_coeff",
                   "start_spin", "final_spin" >>

(* td.py line 232: the call with the converted groups as its positional
   arguments; too few of them is a TypeError *)
add_converted(trs, nargs) ==
    IF nargs < Len(RequiredOfAdd) THEN Result(trs, "TypeError")
    ELSE Result(Append(trs, MOTransition("89", "->", "90", 7, "float", None,
                                         "alpha", "alpha")), "none")

InitScan ==
    /\ StateIdle
    /\ text = NoText
    /\ script = "td.py" /\ python = python_of("td.py")
    /\ args = DefaultArgs /\ pc = "none" /\ parsed_states = << >>
    /\ outcome = "none" /\ display = NoDisplay /\ calls = << >>
    /\ handle \in SeqsUpTo(Lines, MaxLines)
    /\ lineno = 0
    /\ matched_exc_state = FALSE
    /\ excited_states = << >>
    /\ parsed = "no"

Reading == parsed = "no" /\ lineno < Len(handle)

line == handle[lineno + 1]

Scanned(states, matched, status) ==
    /\ lineno' = lineno + 1
    /\ excited_states' = states
    /\ matched_exc_state' = matched
    /\ parsed' = status
    /\ UNCHANGED << handle, stateVars, text, script, python, args, pc,
                    parsed_states, outcome, display, calls >>

(* td.py lines 226-237 and 241: a line TRS_LINE matches, after a header *)
TrsLine ==
    /\ Reading /\ matched_exc_state /\ line.kind = "transition"
    /\ LET n == Len(excited_states)
           r == add_converted(excited_states[n].mo_transitions,
                              Len(TrsFormat))
       IN  Scanned([excited_states EXCEPT ![n].mo_transitions = r.trs],
                   TRUE, IF r.err = "none" THEN "no" ELSE r.err)

(* td.py lines 239-241: the blank line ends the block of a header *)
EndOfBlock ==
    /\ Reading /\ matched_exc_state /\ line.kind = "blank"
    /\ Scanned(excited_states, FALSE, "no")

(* td.py line 241: any other line after a header is passed over by the
   continue, before EXC_LINE is tried *)
Continue ==
    /\ Reading /\ matched_exc_state
    /\ line.kind \notin { "transition", "blank" }
    /\ Scanned(excited_states, TRUE, "no")

(* td.py lines 242-246 *)
ExcLine ==
    /\ Reading /\ ~ matched_exc_state /\ line.kind = "header"
    /\ Scanned(Append(excited_states, header_state(line)), TRUE, "no")

(* td.py lines 242-243 with no match *)
NoMatch ==
    /\ Reading /\ ~ matched_exc_state /\ line.kind # "header"
    /\ Scanned(excited_states, FALSE, "no")

(* td.py lines 248-250 *)
Return ==
    /\ parsed = "no" /\ lineno = Len(handle)
    /\ parsed' = "ok"
    /\ UNCHANGED << handle, lineno, matched_exc_state, excited_states,
                    stateVars, text, mainVars >>

NextScan ==
    \/ TrsLine
    \/ EndOfBlock
    \/ Continue
    \/ ExcLine
    \/ NoMatch
    \/ Return

SpecScan == InitScan /\ [][NextScan]_vars

----------------------------------------------------------------------------
(* Properties                                                              *)

AllSet(trs) == \A i \in DOMAIN trs : trs[i].contrib # None

SamePair(t, u) == t.start_mo = u.start_mo /\ t.final_mo = u.final_mo

IsForward(t) == t.to_or_from = "->"

IsBackward(t) == t.to_or_from = "<-"

(* the sum of the contributions of the transitions at the indices idx *)
RECURSIVE ContribSum(_, _)
ContribSum(trs, idx) ==
    IF idx = { } THEN 0
    ELSE LET i == CHOOSE k \in idx : TRUE
         IN  trs[i].contrib + ContribSum(trs, idx \ { i })

(* the contributions of the back-excitations over the orbital pair of t *)
BackwardOver(trs, t) ==
    ContribSum(trs, { j \in DOMAIN trs :
                        IsBackward(trs[j]) /\ SamePair(trs[j], t) })

ForwardsOver(trs, t) ==
    { k \in DOMAIN trs : IsForward(trs[k]) /\ SamePair(trs[k], t) }

SameShape(trs, trs2) ==
    /\ Len(trs2) = Len(trs)
    /\ \A i \in DOMAIN trs :
          trs2[i] = [trs[i] EXCEPT !.contrib = trs2[i].contrib]

(* C1: correct_backexcitations, run after calculate_contributions on a state
   in which every BACKWARD transition has exactly one FORWARD transition
   over the same orbital pair, reduces each FORWARD contribution by the
   contributions of the BACKWARD transitions over its pair and leaves every
   BACKWARD contribution as it was, wherever the two stand in the list. *)
C1_Case ==
    /\ stage = "calculated"
    /\ AllSet(mo_transitions)
    /\ \A b \in DOMAIN mo_transitions :
          IsBackward(mo_transitions[b]) =>
              Cardinality(ForwardsOver(mo_transitions, mo_transitions[b])) = 1

C1_Post ==
    /\ err' = "none"
    /\ SameShape(mo_transitions, mo_transitions')
    /\ \A i \in DOMAIN mo_transitions :
          mo_transitions'[i].contrib =
              IF IsBackward(mo_transitions[i])
              THEN mo_transitions[i].contrib
              ELSE mo_transitions[i].contrib
                   - BackwardOver(mo_transitions, mo_transitions[i])

C1_ForwardReducedByBackward ==
    [][CorrectBackexcitations /\ C1_Case => C1_Post]_vars

(* C2: calculate_contributions keeps every contribution that is already
   set, a set 0 included, and a second call right after a first one changes
   no transition. *)
C2_Step ==
    /\ SameShape(mo_transitions, mo_transitions')
    /\ \A i \in DOMAIN mo_transitions :
          mo_transitions[i].contrib # None =>
              mo_transitions'[i].contrib = mo_transitions[i].contrib
    /\ (last = "calculate_contributions" => mo_transitions' = mo_transitions)

C2_CalculateKeepsSetContributions ==
    [][CalculateContributions => C2_Step]_vars

(* two calls in a row, the second one on a state holding a contribution that
   the correction brought to 0 while its CI coefficient is not 0 *)
C2_Witness ==
    /\ prev = "calculate_contributions"
    /\ last = "calculate_contributions"
    /\ err = "none"
    /\ \E i \in DOMAIN mo_transitions :
          /\ mo_transitions[i].ci_type = "float"
          /\ mo_transitions[i].contrib = 0
          /\ mo_transitions[i].ci_coeff # 0

(* the multiplicity tokens that denote a singlet: Gaussian's header token,
   TURBOMOLE's escf token, ricc2's multiplicity 1 *)
DenotesSinglet(sp) == sp \in { "Singlet", "singlet", "1" }

(* C3: calculate_contributions gives every transition whose contribution is
   unset ci_coeff^2 * 2 when the state's multiplicity token denotes a
   singlet and ci_coeff^2 otherwise. *)
C3_Step ==
    \A i \in DOMAIN mo_transitions :
        (mo_transitions[i].contrib = None /\ mo_transitions[i].ci_type # "str")
        => /\ i \in DOMAIN mo_transitions'
           /\ mo_transitions'[i].contrib =
                 mo_transitions[i].ci_coeff * mo_transitions[i].ci_coeff
                 * (IF DenotesSinglet(spin) THEN 2 ELSE 1)

C3_SingletContributionDoubled ==
    [][CalculateContributions /\ stage = "parsed" => C3_Step]_vars

(* C4: a call of suppress_low_ci_coeffs that completes removes exactly the
   transitions whose contribution is known and <= thresh^2 * 2, or unknown
   with |ci_coeff| <= thresh: none that remains has a known contribution
   (0 included) at or below the cutoff, none above it is removed.  The
   doubling factor is read as the 2 of line 138. *)
C4_ShouldGo(t, thresh) ==
    IF t.contrib # None THEN t.contrib <= thresh * thresh * 2
    ELSE Abs(t.ci_coeff) <= thresh

C4_Step ==
    LET Stays(t) == ~ C4_ShouldGo(t, args_ci_coeff)
    IN  mo_transitions' = SelectSeq(mo_transitions, Stays)

C4_SuppressRemovesExactlyLow ==
    [][SuppressLowCiCoeffs /\ stage = "corrected" /\ err' = "none"
       => C4_Step]_vars

(* C5: on a state whose contributions are the ones calculate_contributions
   derives from the CI coefficients, suppress_low_ci_coeffs(thresh) removes
   a transition if and only if |ci_coeff| <= thresh, singlet or not. *)
C5_Case ==
    /\ stage = "corrected"
    /\ \A i \in DOMAIN mo_transitions :
          /\ mo_transitions[i].ci_type = "float"
          /\ mo_transitions[i].contrib = derived_contrib(spin, mo_transitions[i])

C5_Step ==
    LET Stays(t) == Abs(t.ci_coeff) > args_ci_coeff
    IN  mo_transitions' = SelectSeq(mo_transitions, Stays)

C5_ThresholdIsCiCutoff ==
    [][SuppressLowCiCoeffs /\ C5_Case => C5_Step]_vars

(* C6: suppress_low_ci_coeffs, run after the back-excitation correction,
   does not increase the sum of the FORWARD contributions of the state. *)
ForwardSum(trs) ==
    ContribSum(trs, { j \in DOMAIN trs : IsForward(trs[j]) })

C6_ForwardSumNotIncreased ==
    [][SuppressLowCiCoeffs /\ stage = "corrected" /\ AllSet(mo_transitions)
       => ForwardSum(mo_transitions') <= ForwardSum(mo_transitions)]_vars

(* C7: at every point of the per-state pipeline every contribution that is
   set lies in [0,1], i.e. between 0 and 100 hundredths. *)
C7_ContributionInUnitInterval ==
    stage \in { "calculated", "corrected", "suppressed" } =>
        \A i \in DOMAIN mo_transitions :
            mo_transitions[i].contrib # None =>
                /\ 0 <= mo_transitions[i].contrib
                /\ mo_transitions[i].contrib <= 100

(* C8: no transition listing, print_mo_transitions or as_table, emits a
   row for a BACKWARD transition. *)
C8_NoBackwardListed ==
    outBy \in { "print_mo_transitions", "as_table" } =>
        \A r \in DOMAIN out : out[r].to_or_from # "<-"

(* C9: on a state with a BACKWARD transition that has no FORWARD transition
   over its orbital pair, correct_backexcitations raises an IndexError or
   changes no contribution. *)
C9_Case ==
    /\ stage = "calculated"
    /\ AllSet(mo_transitions)
    /\ \E b \in DOMAIN mo_transitions :
          /\ IsBackward(mo_transitions[b])
          /\ ForwardsOver(mo_transitions, mo_transitions[b]) = { }

C9_UnmatchedBackwardFailsOrNoOp ==
    [][CorrectBackexcitations /\ C9_Case
       => (err' = "IndexError" \/ mo_transitions' = mo_transitions)]_vars

(* C10: a parser whose extracted collections differ in length fails and
   returns no state.  For parse_ricc2 the lengths are compared after the
   doubled symmetry/energy listing has been cut to its first half. *)
C10_Mismatch ==
    LET ns == Len(text.syms)
        ne == Len(text.ees)
        no == Len(text.oscs)
        nb == Len(text.blocks)
    IN  IF text.fmt = "ricc2" /\ ns = ne /\ ns = 2 * no
        THEN no # nb
        ELSE ~ (ns = ne /\ ne = no /\ no = nb)

C10_LengthMismatchIsFatal ==
    (parsed # "no" /\ C10_Mismatch) =>
        (parsed # "ok" /\ excited_states = << >>)

(* C11: when parse_ricc2 finds the symmetry/multiplicity and energy lists
   exactly twice as long as the oscillator strengths, the result has
   len(oscs) states and state i carries the i-th id, symmetry, multiplicity
   and energy of the first listing with the i-th oscillator strength and
   block; when the lists are not doubled no entry is dropped. *)
C11_Carries(s, t, i) ==
    /\ s.id = t.syms[i].id
    /\ s.spat = t.syms[i].spat
    /\ s.spin = t.syms[i].spin
    /\ s.dE = ricc2_dE(t.ees[i])
    /\ s.l = ricc2_l(t.ees[i])
    /\ s.f = t.oscs[i]
    /\ Len(s.mo_transitions) = Len(t.blocks[i])
    /\ \A j \in DOMAIN t.blocks[i] :
          /\ s.mo_transitions[j].start_mo = t.blocks[i][j].start_mo
          /\ s.mo_transitions[j].final_mo = t.blocks[i][j].final_mo
          /\ s.mo_transitions[j].contrib = t.blocks[i][j].percent

C11_FirstListingKept ==
    (parsed = "ok" /\ text.fmt = "ricc2") =>
        /\ Len(excited_states) = Len(text.oscs)
        /\ Len(text.syms) # 2 * Len(text.oscs) =>
              /\ Len(excited_states) = Len(text.syms)
              /\ Len(excited_states) = Len(text.ees)
        /\ \A i \in DOMAIN excited_states :
              C11_Carries(excited_states[i], text, i)

C11_Witness ==
    /\ parsed = "ok" /\ text.fmt = "ricc2"
    /\ Len(text.oscs) = 2 /\ Len(text.syms) = 4
    /\ text.syms[1] # text.syms[3]
    /\ Len(excited_states) = 2

(* the product of two naturals below 2^31, as six base-10^4 digits, lowest
   first: the products of the model's energies and wavelengths exceed the
   integers of the checker *)
Digit(a, i) == (a \div (10000 ^ i)) % 10000

Carry(c) ==
    LET d0 == c[1]
        d1 == c[2] + d0 \div 10000
        d2 == c[3] + d1 \div 10000
        d3 == c[4] + d2 \div 10000
        d4 == c[5] + d3 \div 10000
    IN  << d0 % 10000, d1 % 10000, d2 % 10000, d3 % 10000, d4 % 10000,
           d4 \div 10000 >>

WideMul(a, b) ==
    Carry(<< Digit(a, 0) * Digit(b, 0),
             Digit(a, 0) * Digit(b, 1) + Digit(a, 1) * Digit(b, 0),
             Digit(a, 0) * Digit(b, 2) + Digit(a, 1) * Digit(b, 1)
                 + Digit(a, 2) * Digit(b, 0),
             Digit(a, 1) * Digit(b, 2) + Digit(a, 2) * Digit(b, 1),
             Digit(a, 2) * Digit(b, 2) >>)

(* C12: every ExcitedState a parser returns has l * dE = 1239.84193 nm eV,
   whether it was computed with the Hartree constants of parse_escf or with
   EV2NM in parse_ricc2.  In the model's units l * dE is
   (l.n / l.d) * dE * 1e-11 and the constant is EV2NM * 10^6 * 1e-11. *)
C12_WavelengthFromEnergy ==
    parsed = "ok" =>
        \A i \in DOMAIN excited_states :
            WideMul(excited_states[i].l.n, excited_states[i].dE)
                = WideMul(EV2NM, 1000000 * excited_states[i].l.d)

(* C13: after the sort stage, when --sf is not given, the list is in
   non-decreasing dE and the state at 0-based position i has id i+1, in
   td.py and in run.py. *)
C13_DefaultSortOrdersAndNumbers ==
    (pc = "range" /\ outcome = "running" /\ ~ args.sf) =>
        \A i \in DOMAIN excited_states :
            /\ excited_states[i].id = i
            /\ i > 1 => excited_states[i - 1].dE <= excited_states[i].dE

(* C14: no two states of the list a parser returns share an id, TURBOMOLE
   reports that number the states of each irrep from 1 included. *)
C14_IdsUnique ==
    parsed = "ok" =>
        \A i, j \in DOMAIN excited_states :
            i # j => excited_states[i].id # excited_states[j].id

(* C15: for an even-length list m1 .. m2k given to --start-final-mos the
   filter keeps exactly the states that have a transition m(2j-1) -> m(2j)
   for some j in 1..k. *)
C15_HasGivenPair(s, sf_mos) ==
    \E j \in 1..(Len(sf_mos) \div 2) :
        has_mo_transition(s, sf_mos[2 * j - 1], sf_mos[2 * j])

C15_Step ==
    ( /\ pc = "start_final_mos" /\ pc' = "sort"
      /\ args.start_final_mos # << >>
      /\ Len(args.start_final_mos) % 2 = 0 )
    => /\ outcome' = "running"
       /\ { excited_states'[i] : i \in DOMAIN excited_states' }
            = { s \in { excited_states[i] : i \in DOMAIN excited_states } :
                  C15_HasGivenPair(s, args.start_final_mos) }

C15_KeepsStatesWithGivenPairs == [][C15_Step]_vars

(* C16: a run given an odd-length --start-final-mos list, or a --range of
   neither 1 nor 2 values, ends with a fatal usage error and has printed no
   result, whatever the other options. *)
C16_BadArity ==
    \/ Len(args.start_final_mos) % 2 # 0
    \/ Len(args.range) > 2

C16_BadArityIsFatal ==
    (pc # "none" /\ outcome # "running" /\ C16_BadArity) =>
        /\ outcome \in { "usage", "Exception" }
        /\ display = NoDisplay

(* C17: --by-id k with k outside 1..N reports that the state was not found,
   displays no state and ends normally; with k inside 1..N it displays
   exactly the state at 1-based position k. *)
C17_Step ==
    (pc = "by_id" /\ pc' = "irrep" /\ args.by_id # None) =>
        IF args.by_id \in 1..Len(excited_states)
        THEN /\ display'.kind = "state"
             /\ display'.states = << excited_states[args.by_id] >>
        ELSE /\ display'.kind = "not_found"
             /\ display'.states = << >>
             /\ outcome' = "exit"

C17_ByIdShowsPositionOrNotFound == [][C17_Step]_vars

(* C18: the f-threshold stage with threshold t keeps exactly the states
   with f >= t, in the order they had: f = 0.10 stays for t = 0.05 and for
   t = 0.10 and goes for t = 0.20. *)
C18_KeptInOrder(before, after, t) ==
    \E m \in [ DOMAIN after -> DOMAIN before ] :
        /\ \A i, j \in DOMAIN after : i < j => m[i] < m[j]
        /\ { m[i] : i \in DOMAIN after }
             = { k \in DOMAIN before : before[k].f >= t }
        /\ \A i \in DOMAIN after : after[i] = before[m[i]]

C18_Step ==
    (pc = "fthresh" /\ pc' = "show") =>
        /\ outcome' = "running"
        /\ C18_KeptInOrder(excited_states, excited_states', args.fthresh)

C18_FThreshKeepsAtLeastT == [][C18_Step]_vars

C18_Witness ==
    /\ pc = "show" /\ outcome = "running"
    /\ args = [DefaultArgs EXCEPT !.fthresh = 10]
    /\ Len(parsed_states) = 2 /\ parsed_states[2].f = 0
    /\ Len(excited_states) = 1 /\ excited_states[1].f = 10

(* C19: when the filters leave no state, the MO-range bookkeeping and the
   table output still complete without raising. *)
C19_EmptyListCompletes ==
    (pc \in { "output", "end" } /\ excited_states = << >>) =>
        outcome \in { "running", "done", "exit" }

(* C20: a run with no option at all hands the table every parsed state
   with every parsed transition. *)
C20_SameTransitions(s, p) ==
    /\ s.spat = p.spat /\ s.dE = p.dE /\ s.f = p.f
    /\ Len(s.mo_transitions) = Len(p.mo_transitions)
    /\ \A j \in DOMAIN p.mo_transitions :
          /\ s.mo_transitions[j].start_mo = p.mo_transitions[j].start_mo
          /\ s.mo_transitions[j].final_mo = p.mo_transitions[j].final_mo

C20_NoOptionKeepsEverything ==
    (pc = "end" /\ outcome = "done" /\ args = DefaultArgs) =>
        /\ Len(display.states) = Len(parsed_states)
        /\ \A i \in DOMAIN parsed_states :
              \E k \in DOMAIN display.states :
                  C20_SameTransitions(display.states[k], parsed_states[i])

(* C21: make_spectrum with normalization on emits, for every state list
   and every non-empty sample range, a curve whose largest sample is
   exactly 1 and whose samples are all at most 1, with or without e2f. *)
C21_IsOne(q) == q.d # 0 /\ q.n = q.d

C21_AtMostOne(q) == q.d > 0 /\ q.n <= q.d

C21_NormalizedPeakIsOne ==
    ( /\ script = "td.py" /\ pc = "by_id" /\ outcome = "exit"
      /\ args.spectrum /\ args.normalized /\ args.end_l > args.start_l )
    => /\ display.curve # << >>
       /\ \E i \in DOMAIN display.curve : C21_IsOne(display.curve[i])
       /\ \A i \in DOMAIN display.curve : C21_AtMostOne(display.curve[i])

(* C22: a transition of parse_escf has ci_coeff 0 and the parsed percentage
   as its contribution, and calculate_contributions and
   correct_backexcitations leave that contribution as parsed, a parsed
   percentage of 0 included. *)
C22_AsParsed(t) ==
    t.ci_coeff = 0 /\ t.ci_type = "int" /\ t.contrib \in PctVals

C22_Step ==
    ( /\ source = "escf" /\ ncalls' = ncalls + 1
      /\ last' \in { "calculate_contributions", "correct_backexcitations" } )
    => /\ \A i \in DOMAIN mo_transitions : C22_AsParsed(mo_transitions[i])
       /\ mo_transitions' = mo_transitions
       /\ err' = "none"

C22_EscfContributionNotRederived == [][C22_Step]_vars

C22_Witness ==
    /\ source = "escf" /\ stage = "corrected"
    /\ last = "correct_backexcitations" /\ err = "none"
    /\ \E i \in DOMAIN mo_transitions : mo_transitions[i].contrib = 0
    /\ \E i \in DOMAIN mo_transitions : mo_transitions[i].contrib = 49

(* C23: every transition a parser builds has start_spin and final_spin in
   {alpha, beta}, and both are alpha where the report gives no spin: the
   empty optional group of an escf line, the missing spin fields of a ricc2
   line of 8 fields. *)
C23_Spins == { "alpha", "beta" }

C23_SpinOf(field, sp) ==
    /\ sp \in C23_Spins
    /\ field = "" => sp = "alpha"

C23_SpinsAlphaOrBeta ==
    parsed = "ok" =>
        \A i \in DOMAIN excited_states :
            \A j \in DOMAIN excited_states[i].mo_transitions :
                /\ C23_SpinOf(text.blocks[i][j].start_spin,
                              excited_states[i].mo_transitions[j].start_spin)
                /\ C23_SpinOf(text.blocks[i][j].final_spin,
                              excited_states[i].mo_transitions[j].final_spin)

----------------------------------------------------------------------------
(* C24: every transition a parser builds carries a numeric ci_coefficient,
   so the call of suppress_low_ci_coeffs that ends the per-state sequence
   of __main__ returns without an exception on every state a parser can
   return, a ricc2 transition with percentage 0 included. *)
C24_Numeric(t) == t.ci_type \in { "float", "int" }

C24_SuppressCompletes ==
    stage = "suppressed" =>
        /\ err = "none"
        /\ \A j \in DOMAIN mo_transitions : C24_Numeric(mo_transitions[j])

----------------------------------------------------------------------------
(* C25: in every run, once the per-state loop of __main__ is over, the
   calls made for each state of the parsed list are
   calculate_contributions, correct_backexcitations, suppress_low_ci_coeffs,
   in this order and once each; hence correct_backexcitations never finds a
   transition whose contribution is unset, and suppress_low_ci_coeffs never
   runs on a state before its correction. *)
C25_Order == << "calculate_contributions", "correct_backexcitations",
               "suppress_low_ci_coeffs" >>

C25_CallsOf(i) ==
    LET mine == SelectSeq(calls, LAMBDA c : c.state = i)
    IN  [ k \in DOMAIN mine |-> mine[k].method ]

C25_ContributionsSet(c) ==
    c.method = "correct_backexcitations" =>
        \A j \in DOMAIN c.trs : c.trs[j].contrib # None

C25_TransformsInOrderOnce ==
    ( pc \notin { "none", "per_state" } /\ parsed = "ok" ) =>
        /\ \A i \in DOMAIN parsed_states : C25_CallsOf(i) = C25_Order
        /\ \A k \in DOMAIN calls : C25_ContributionsSet(calls[k])

----------------------------------------------------------------------------
(* C26: the table a run prints is a function of the parsed list and the
   options: every run on the same list with the same options prints the
   states in the order, and with the ids, of the run that iterates each set
   of the MO filters in the order of the list, also when states tie on the
   sort key and when no sort option is given. *)
C26_InListOrder ==
    LET s0 == per_state_from(parsed_states, args.ci_coeff, 1).states
        s1 == IF Truthy(args.only_first)
              THEN slice_to(s0, args.only_first) ELSE s0
        s2 == IF args.irrep # ""
              THEN SelectSeq(s1, LAMBDA s : s.spat = args.irrep) ELSE s1
        s3 == IF args.start_mos # << >>
              THEN with_start_mos(s2, args.start_mos) ELSE s2
        s4 == IF args.final_mos # << >>
              THEN with_final_mos(s3, args.final_mos) ELSE s3
        s5 == IF args.start_final_mos # << >>
              THEN with_pairs(s4, sf_pairs(args.start_final_mos)) ELSE s4
        s6 == IF script = "td.py" THEN sort_td(s5, args.sf)
              ELSE sort_run(s5, args.sf, args.se)
        s7 == IF args.range # << >> THEN in_range(s6, args.range) ELSE s6
        s8 == IF args.fthresh # 0
              THEN above_fthresh(s7, args.fthresh) ELSE s7
    IN  slice_to(s8, args.show)

C26_SameInputsSameTable ==
    ( pc = "end" /\ outcome = "done" ) => display.states = C26_InListOrder

----------------------------------------------------------------------------
(* C27: get_excited_states returns, for every sequence of header,
   transition, blank and other lines, one ExcitedState per header line, in
   the order of the lines, and each state holds the transition lines that
   follow its header up to the next header or blank line, also when a
   header comes right after transition lines with no blank line between. *)
RECURSIVE C27_HeadersFrom(_)
C27_HeadersFrom(i) ==
    IF i > Len(handle) THEN << >>
    ELSE ( IF handle[i].kind = "header" THEN << i >> ELSE << >> )
         \o C27_HeadersFrom(i + 1)

C27_Headers == C27_HeadersFrom(1)

C27_BlockOf(h) ==
    { q \in (h + 1)..Len(handle) :
        /\ handle[q].kind = "transition"
        /\ \A m \in (h + 1)..(q - 1) :
               handle[m].kind \notin { "header", "blank" } }

C27_OneStatePerHeader ==
    parsed # "no" =>
        /\ parsed = "ok"
        /\ Len(excited_states) = Len(C27_Headers)
        /\ \A k \in DOMAIN C27_Headers :
              /\ excited_states[k].id = handle[C27_Headers[k]].id
              /\ Len(excited_states[k].mo_transitions)
                     = Cardinality(C27_BlockOf(C27_Headers[k]))

====
